---- MODULE Spec2Model ----
(***************************************************************************)
(* Model of the UI state machines of src/src/App.tsx: the toast centre of  *)
(* App (addToast / dismissToast / the 5000 ms expiry timeouts) and the     *)
(* simulated progress task of EncryptionDemo (simulateEncryption, its      *)
(* 100 ms interval callback, reset, the input field), and the state of App  *)
(* that lives across page loads: the feature tour (FeatureTour, closeTour, *)
(* the 2000 ms auto-open timeout, 'secura-tour-seen'), the FAQ accordion   *)
(* (openFaq) and the theme (darkMode, 'secura-theme').                     *)
(*                                                                         *)
(* The browser runs one handler at a time to completion, so every handler  *)
(* is one atomic action.  Variables marked "history" are not program state:*)
(* they record what the handlers did so that properties can refer to it,   *)
(* and no handler reads them.                                              *)
(***************************************************************************)
EXTENDS Integers, Sequences, FiniteSets, TLC

\* ---------------------------------------------------------------- constants
TOAST_DELAY == 5000        \* setTimeout(..., 5000) in addToast
FULL == 100                \* the completion threshold and clamp value
RANDOM_SCALE == 15         \* Math.random() * 15
TOUR_DELAY == 2000         \* setTimeout(() => setShowTour(true), 2000)
TOUR_STEPS == 4            \* steps.length in FeatureTour
FAQ_COUNT == 5             \* faqs.length in App
SCROLLED_AT == 50          \* setScrolled(window.scrollY > 50)
BACK_TO_TOP_AT == 500      \* setVisible(window.scrollY > 500)

\* ------------------------------------------------------------------- bounds
MaxPushes == 2             \* addToast calls in one run
MaxPeriods == 1            \* the clock covers 0 .. MaxPeriods * TOAST_DELAY (+ jitter)
MaxJitter == 1             \* milliseconds observed right after each period start
MaxRuns == 2               \* runs of the encryption demo started in one run
MaxLoads == 2              \* page loads after the first one
MaxOpens == 2              \* clicks on "Take Tour"
MaxToggles == 2            \* theme toggles within one page load

\* Instants at which the handlers are observed to run (values of Date.now()).
Times == { k * TOAST_DELAY + j : k \in 0..MaxPeriods, j \in 0..MaxJitter }
MaxTime == MaxPeriods * TOAST_DELAY + MaxJitter

ToastTypes == {"success", "error", "info"}
\* the message of the one call site of addToast
Messages == {"Contact form coming soon!"}
\* Values of the demo's text input; "" is the empty input.
Inputs == {"", "secret", "x"}
\* Math.random() is in [0, 1), so an increment is in [0, 15); whole units here.
Increments == 0 .. (RANDOM_SCALE - 1)
\* Milliseconds since the page load at which handlers are observed to run.
TourTimes == {0, TOUR_DELAY - 1, TOUR_DELAY, TOUR_DELAY + 1}
\* localStorage.getItem(key) of a key that was never set (null)
NoItem == "<null>"
\* openFaq === null
NoFaq == -1
\* Values of window.scrollY at scroll events: the top, and each threshold with
\* the pixel after it.
ScrollPositions == {0, SCROLLED_AT, SCROLLED_AT + 1,
                    BACK_TO_TOP_AT, BACK_TO_TOP_AT + 1}
\* The components that subscribe to the window's scroll event.
Components == {"App", "BackToTop"}

VARIABLES
    now,         \* the clock: Date.now() and the timer clock, in ms
    toasts,      \* App state `toasts`: sequence of toast records
    timers,      \* pending expiry timeouts of addToast, in creation order
    pushed,      \* history: every toast ever pushed, in arrival order
    dismissed,   \* history: arrivals dismissed while they were in the list
    expired,     \* history: arrivals whose own timer fired while in the list
    file,        \* EncryptionDemo state `file`
    encrypting,  \* EncryptionDemo state `encrypting`
    encrypted,   \* EncryptionDemo state `encrypted`
    progress,    \* EncryptionDemo state `progress`
    intervals,   \* number of live setInterval timers of simulateEncryption
    runs,        \* history: number of runs started (bounds the model)
    windowDefined, \* typeof window !== 'undefined' where this instance runs
    loads,       \* history: page loads after the first (bounds the model)
    atLoad,      \* history: what the last load read and the theme it chose
    appState,    \* the App tree: "mounted", "unmounted" or "crashed"
    storageThrows, \* localStorage.getItem / setItem throw in this browser
    scrollY,     \* window.scrollY
    scrolled,    \* App state `scrolled`
    visible,     \* BackToTop state `visible`
    listeners,   \* window 'scroll' listeners registered by each component
    tourSeen,    \* localStorage 'secura-tour-seen'
    showTour,    \* App state `showTour`
    step,        \* FeatureTour state `step` (0 while FeatureTour is unmounted)
    tourTimer,   \* the auto-open timeout of this load is pending
    age,         \* ms since the page load
    seenWrites,  \* history: number of setItem('secura-tour-seen', ...) calls
    opens,       \* history: clicks on "Take Tour" (bounds the model)
    openFaq,     \* App state `openFaq`
    faqTrail,    \* history: the last two FAQ selections of this load
    storedTheme, \* localStorage 'secura-theme'
    darkMode,    \* App state `darkMode`
    systemDark,  \* matchMedia('(prefers-color-scheme: dark)').matches
    toggles,     \* history: theme toggles of this load (bounds the model)
    prevInst,    \* history: the previous instance when it was unloaded
    themeTrail,  \* history: the state before each of the last two toggles
    op           \* history: the handler that ran last, [name, arg, removed]

toastVars == <<now, toasts, timers, pushed, dismissed, expired>>
progressVars == <<file, encrypting, encrypted, progress, intervals, runs>>
pageVars == <<windowDefined, loads, atLoad, appState, storageThrows>>
scrollVars == <<scrollY, scrolled, visible, listeners>>
tourVars == <<tourSeen, showTour, step, tourTimer, age, seenWrites, opens>>
faqVars == <<openFaq, faqTrail>>
themeVars == <<storedTheme, darkMode, systemDark, toggles, prevInst, themeTrail>>
appVars == <<pageVars, tourVars, faqVars, themeVars, scrollVars>>
vars == <<toastVars, progressVars, appVars, op>>

\* removed = how many toasts the handler took out of the list
\* The component tree is rendered in a browser and has not been removed.
Mounted == windowDefined /\ appState = "mounted"

OpR(name, arg, removed) == [name |-> name, arg |-> arg, removed |-> removed]
Op(name, arg) == OpR(name, arg, 0)

\* ------------------------------------------------------------ ToastCenter
\* A toast is {id, type, message}; `arrival` is a history field (the ordinal
\* of the push) that the code does not have and the model never filters on.
Toast(id, type, message, arrival) ==
    [id |-> id, type |-> type, message |-> message, arrival |-> arrival]

\* prev => [...prev, { id, type, message }]
appendToast(prev, t) == Append(prev, t)

dismissToastInverted(prev, id) == SelectSeq(prev, LAMBDA t : t.id = id)
\* dismissToast: prev => prev.filter(t => t.id !== id)
dismissToast(prev, id) == SelectSeq(prev, LAMBDA t : t.id # id)

\* the timeout callback of addToast: prev => prev.filter(t => t.id !== id)
expireToast(prev, id) == SelectSeq(prev, LAMBDA t : t.id # id)

Arrivals(s) == { s[i].arrival : i \in DOMAIN s }
Ids(s) == { s[i].id : i \in DOMAIN s }

ToastInit ==
    /\ now = 0
    /\ toasts = <<>>
    /\ timers = <<>>
    /\ pushed = <<>>
    /\ dismissed = {}
    /\ expired = {}

\* addToast(type, message): id = Date.now(); append; setTimeout(remove id, 5000)
addToast(type, message) ==
    /\ Mounted
    /\ Len(pushed) < MaxPushes
    /\ now + TOAST_DELAY <= MaxTime
    /\ LET id == now
           t == Toast(id, type, message, Len(pushed) + 1)
       IN /\ toasts' = appendToast(toasts, t)
          /\ timers' = Append(timers, [id |-> id, arrival |-> t.arrival,
                                       due |-> now + TOAST_DELAY])
          /\ pushed' = Append(pushed, t)
          /\ op' = Op("addToast", id)
    /\ UNCHANGED <<now, dismissed, expired, progressVars,
                 appVars>>

\* The dismiss button of one notification: onDismiss(toast.id).  The button of
\* a notification stays on screen while it animates out, so the target is a
\* toast in the list or one whose timeout is still pending.
DismissClick(a) ==
    /\ Mounted
    /\ a \in Arrivals(toasts) \cup Arrivals(timers)
    /\ LET id == pushed[a].id
       IN /\ toasts' = dismissToast(toasts, id)
          /\ op' = OpR("dismissToast", id, Len(toasts) - Len(toasts'))
    /\ dismissed' = IF a \in Arrivals(toasts) THEN dismissed \cup {a} ELSE dismissed
    /\ UNCHANGED <<now, timers, pushed, expired, progressVars,
                 appVars>>

\* The oldest pending timeout fires once its delay has elapsed (timeouts of
\* equal delay run in creation order; none is ever cancelled).  The state
\* update of a callback that runs after App was removed is dropped by React.
ExpiryTimer ==
    /\ timers # <<>>
    /\ now >= Head(timers).due
    /\ LET tm == Head(timers)
       IN /\ toasts' = IF Mounted THEN expireToast(toasts, tm.id) ELSE toasts
          /\ expired' = IF Mounted /\ tm.arrival \in Arrivals(toasts)
                        THEN expired \cup {tm.arrival} ELSE expired
          /\ op' = OpR("expire", tm.id, Len(toasts) - Len(toasts'))
    /\ timers' = Tail(timers)
    /\ UNCHANGED <<now, pushed, dismissed, progressVars,
                 appVars>>

\* Time passes between two handlers.
AdvanceClock ==
    /\ \E t \in Times : t > now /\ now' = t
    /\ op' = Op("clock", 0)
    /\ UNCHANGED <<toasts, timers, pushed, dismissed, expired, progressVars,
                 appVars>>

\* -------------------------------------------------- SimulatedProgressTask
ProgressInit ==
    /\ file = ""
    /\ encrypting = FALSE
    /\ encrypted = FALSE
    /\ progress = 0
    /\ intervals = 0
    /\ runs = 0

\* onChange of the input, rendered while !encrypted
setFile(v) ==
    /\ Mounted
    /\ ~encrypted
    /\ file' = v
    /\ op' = Op("setFile", 0)
    /\ UNCHANGED <<encrypting, encrypted, progress, intervals, runs, toastVars,
                 appVars>>

simulateEncryptionNoGuard ==
    /\ Mounted
    /\ ~encrypted /\ ~encrypting
    /\ runs < MaxRuns
    /\ encrypting' = TRUE
    /\ progress' = 0
    /\ intervals' = intervals + 1
    /\ runs' = runs + 1
    /\ op' = Op("simulateEncryption", 0)
    /\ UNCHANGED <<file, encrypted, toastVars,
                 appVars>>
simulateEncryptionNotDisabled ==
    /\ Mounted
    /\ ~encrypted
    /\ runs < MaxRuns
    /\ IF file = ""
       THEN UNCHANGED <<encrypting, progress, intervals, runs>>
       ELSE /\ encrypting' = TRUE
            /\ progress' = 0
            /\ intervals' = intervals + 1
            /\ runs' = runs + 1
    /\ op' = Op("simulateEncryption", 0)
    /\ UNCHANGED <<file, encrypted, toastVars,
                 appVars>>
\* simulateEncryption, the onClick of the LoadingButton, which is rendered
\* while !encrypted and disabled while encrypting
simulateEncryption ==
    /\ Mounted
    /\ ~encrypted /\ ~encrypting
    /\ runs < MaxRuns
    /\ IF file = ""
       THEN UNCHANGED <<encrypting, progress, intervals, runs>>
       ELSE /\ encrypting' = TRUE
            /\ progress' = 0
            /\ intervals' = intervals + 1
            /\ runs' = runs + 1
    /\ op' = Op("simulateEncryption", 0)
    /\ UNCHANGED <<file, encrypted, toastVars,
                 appVars>>

tickValueNoClamp(prev, r) == IF prev >= FULL THEN prev ELSE prev + r
\* the updater of setProgress in the interval callback
tickValue(prev, r) == IF prev >= FULL THEN FULL ELSE prev + r

\* One firing of the interval callback with random increment r.  After the
\* component was removed React drops setProgress and never runs the updater,
\* so the interval is not cleared either.
Tick(r) ==
    /\ intervals > 0
    /\ progress' = IF Mounted THEN tickValue(progress, r) ELSE progress
    /\ IF Mounted /\ progress >= FULL
       THEN /\ intervals' = intervals - 1
            /\ encrypting' = FALSE
            /\ encrypted' = TRUE
       ELSE UNCHANGED <<intervals, encrypting, encrypted>>
    /\ op' = Op("tick", r)
    /\ UNCHANGED <<file, runs, toastVars,
                 appVars>>

resetBodyKeepsProgress ==
    /\ file' = ""
    /\ encrypted' = FALSE
    /\ op' = Op("reset", 0)
    /\ UNCHANGED <<progress, encrypting, intervals, runs, toastVars,
                 appVars>>
\* the body of reset: setFile(''); setEncrypted(false); setProgress(0)
resetBody ==
    /\ file' = ""
    /\ encrypted' = FALSE
    /\ progress' = 0
    /\ op' = Op("reset", 0)
    /\ UNCHANGED <<encrypting, intervals, runs, toastVars,
                 appVars>>

\* reset, the onClick of "Try another", rendered while encrypted
reset ==
    /\ Mounted
    /\ encrypted
    /\ resetBody

\* reset() invoked as the operation of the component's contract, in whatever
\* state the task is: the function itself has no condition.
resetAnyState ==
    /\ Mounted
    /\ ~encrypted
    /\ resetBody

\* ---------------------------------------------------------- scroll signal
scrolledAtInclusive(y) == y >= SCROLLED_AT
\* App's handleScroll: setScrolled(window.scrollY > 50)
scrolledAt(y) == y > SCROLLED_AT

backToTopAtFifty(y) == y >= SCROLLED_AT
\* BackToTop's handleScroll: setVisible(window.scrollY > 500)
backToTopAt(y) == y > BACK_TO_TOP_AT

NoListeners == [c \in Components |-> 0]
\* window.addEventListener('scroll', handleScroll, { passive: true })
addEventListener(ls, c) == [ls EXCEPT ![c] = @ + 1]
removeEventListenerOtherRef(ls, c) == ls
\* the effect cleanup: window.removeEventListener('scroll', handleScroll)
removeEventListener(ls, c) == [ls EXCEPT ![c] = IF @ > 0 THEN @ - 1 ELSE 0]

\* The mount effects of BackToTop (the child, first) and of App.
mountListeners ==
    addEventListener(addEventListener(NoListeners, "BackToTop"), "App")
\* The effect cleanups that React runs when the tree is removed.
unmountListeners(ls) ==
    removeEventListener(removeEventListener(ls, "BackToTop"), "App")

\* One scroll event at position y: the window calls the registered listeners,
\* BackToTop's and App's, one after the other in the same dispatch.
Scroll(y) ==
    /\ windowDefined
    /\ y # scrollY
    /\ scrollY' = y
    /\ visible' = IF listeners["BackToTop"] > 0 THEN backToTopAt(y) ELSE visible
    /\ scrolled' = IF listeners["App"] > 0 THEN scrolledAt(y) ELSE scrolled
    /\ op' = Op("scroll", y)
    /\ UNCHANGED <<listeners, pageVars, tourVars, faqVars, themeVars,
                   toastVars, progressVars>>

\* The App tree is removed from the page (root unmount): React runs the
\* effect cleanups, which are the two removeEventListener calls.  No effect
\* of App or EncryptionDemo clears a timeout or an interval.
UnmountApp ==
    /\ Mounted
    /\ appState' = "unmounted"
    /\ listeners' = unmountListeners(listeners)
    /\ op' = Op("unmount", 0)
    /\ UNCHANGED <<windowDefined, loads, atLoad, storageThrows,
                   scrollY, scrolled, visible,
                   tourVars, faqVars, themeVars, toastVars, progressVars>>

\* localStorage starts or stops throwing (site data blocked, quota reached).
StorageFault ==
    /\ storageThrows' = ~storageThrows
    /\ op' = Op("storage", 0)
    /\ UNCHANGED <<windowDefined, loads, atLoad, appState, scrollVars,
                   tourVars, faqVars, themeVars, toastVars, progressVars>>

\* ------------------------------------------------------------ page load
getInitialIgnoresSaved(w, saved, sys) == IF w THEN sys ELSE TRUE
\* the initializer of darkMode: window check, saved theme, system preference
getInitial(w, saved, sys) ==
    IF w
    THEN IF saved # NoItem /\ saved # ""
         THEN saved = "dark"
         ELSE sys
    ELSE TRUE

themeStringOfBoolean(dark) == IF dark THEN "true" ELSE "false"
\* darkMode ? 'dark' : 'light'
themeString(dark) == IF dark THEN "dark" ELSE "light"

autoOpenAlways(seen) == TRUE
\* if (!seen): the auto-open timeout is set when the flag is null or empty
autoOpenWanted(seen) == seen = NoItem \/ seen = ""

\* What a load read and the theme it chose.
LoadRecord(w, saved, sys, seen, dark) ==
    [window |-> w, saved |-> saved, system |-> sys, seen |-> seen, dark |-> dark]

\* The first load ever: nothing is persisted yet.  The in-memory state is the
\* useState initial values; with a window the mount effects run: the theme is
\* written to 'secura-theme' and the tour timeout is set if the flag is unset.
AppInit ==
    /\ windowDefined \in BOOLEAN
    /\ systemDark \in BOOLEAN
    /\ loads = 0
    /\ appState = "mounted"
    /\ storageThrows = FALSE
    /\ scrollY = 0
    /\ scrolled = FALSE
    /\ visible = FALSE
    /\ listeners = IF windowDefined THEN mountListeners ELSE NoListeners
    /\ darkMode = getInitial(windowDefined, NoItem, systemDark)
    /\ storedTheme = IF windowDefined THEN themeString(darkMode) ELSE NoItem
    /\ atLoad = LoadRecord(windowDefined, NoItem, systemDark, NoItem, darkMode)
    /\ tourSeen = NoItem
    /\ showTour = FALSE
    /\ step = 0
    /\ tourTimer = (windowDefined /\ autoOpenWanted(NoItem))
    /\ age = 0
    /\ seenWrites = 0
    /\ opens = 0
    /\ openFaq = NoFaq
    /\ faqTrail = <<>>
    /\ toggles = 0
    /\ prevInst = [dark |-> darkMode, toggles |-> 0, window |-> FALSE]
    /\ themeTrail = <<>>

\* A later load of the page (reload or new visit) where `window` is defined
\* (w) or not: the timers, the listeners and the in-memory state of the old
\* page are gone, localStorage stays.  The toast list and the demo start empty
\* again.  If localStorage throws, the initializer of darkMode throws during
\* the first render (there is no try/catch and no error boundary): nothing is
\* mounted, no effect runs and darkMode gets no value.
LoadPage(w) ==
    /\ loads < MaxLoads
    /\ appState' = IF w /\ storageThrows THEN "crashed" ELSE "mounted"
    /\ scrollY' = 0 /\ scrolled' = FALSE /\ visible' = FALSE
    /\ listeners' = IF w /\ ~storageThrows THEN mountListeners ELSE NoListeners
    /\ toasts' = <<>> /\ timers' = <<>>
    /\ pushed' = <<>> /\ dismissed' = {} /\ expired' = {}
    /\ file' = "" /\ encrypting' = FALSE /\ encrypted' = FALSE
    /\ progress' = 0 /\ intervals' = 0
    /\ loads' = loads + 1
    /\ windowDefined' = w
    /\ darkMode' = IF w /\ storageThrows THEN darkMode
                   ELSE getInitial(w, storedTheme, systemDark)
    /\ storedTheme' = IF w /\ ~storageThrows THEN themeString(darkMode')
                      ELSE storedTheme
    /\ atLoad' = LoadRecord(w, storedTheme, systemDark, tourSeen, darkMode')
    /\ showTour' = FALSE
    /\ step' = 0
    /\ tourTimer' = (w /\ ~storageThrows /\ autoOpenWanted(tourSeen))
    /\ age' = 0
    /\ openFaq' = NoFaq
    /\ faqTrail' = <<>>
    /\ toggles' = 0
    /\ prevInst' = [dark |-> darkMode, toggles |-> toggles, window |-> windowDefined]
    /\ themeTrail' = <<>>
    /\ op' = Op("load", 0)
    /\ UNCHANGED <<tourSeen, seenWrites, opens, systemDark, now, runs,
                   storageThrows>>

\* ----------------------------------------------------------- tour stepper
\* {step > 0 && <button>Previous</button>}
PreviousShown == showTour /\ step > 0
NextShownOffByOne == showTour /\ step < TOUR_STEPS
\* {step < steps.length - 1 ? <button>Next</button> : ...}
NextShown == showTour /\ step < TOUR_STEPS - 1
\* ... : <button onClick={onClose}>Get Started</button>
GetStartedShown == showTour /\ ~(step < TOUR_STEPS - 1)

\* "Take Tour": onClick={() => setShowTour(true)}; FeatureTour mounts at step 0
takeTour ==
    /\ Mounted
    /\ opens < MaxOpens
    /\ opens' = opens + 1
    /\ showTour' = TRUE
    /\ step' = IF showTour THEN step ELSE 0
    /\ op' = Op("takeTour", 0)
    /\ UNCHANGED <<tourSeen, tourTimer, age, seenWrites,
                   pageVars, faqVars, themeVars, toastVars, progressVars, scrollVars>>

closeTourNoPersist ==
    /\ showTour' = FALSE
    /\ step' = 0
    /\ UNCHANGED <<tourSeen, seenWrites>>
closeTourMarksUnseen ==
    /\ showTour' = FALSE
    /\ step' = 0
    /\ tourSeen' = "false"
    /\ seenWrites' = seenWrites + 1
\* closeTour: setShowTour(false); localStorage.setItem('secura-tour-seen', 'true')
closeTour ==
    /\ showTour' = FALSE
    /\ step' = 0
    /\ tourSeen' = "true"
    /\ seenWrites' = seenWrites + 1

\* the close (X) button of FeatureTour: onClick={onClose}
CloseClick ==
    /\ Mounted
    /\ showTour
    /\ closeTour
    /\ op' = Op("close", step)
    /\ UNCHANGED <<tourTimer, age, opens,
                   pageVars, faqVars, themeVars, toastVars, progressVars, scrollVars>>

\* the "Get Started" button, shown at the last step: onClick={onClose}
GetStartedClick ==
    /\ Mounted
    /\ GetStartedShown
    /\ closeTour
    /\ op' = Op("finish", step)
    /\ UNCHANGED <<tourTimer, age, opens,
                   pageVars, faqVars, themeVars, toastVars, progressVars, scrollVars>>

\* "Next": onClick={() => setStep(step + 1)}
NextClick ==
    /\ Mounted
    /\ NextShown
    /\ step' = step + 1
    /\ op' = Op("next", step)
    /\ UNCHANGED <<tourSeen, showTour, tourTimer, age, seenWrites, opens,
                   pageVars, faqVars, themeVars, toastVars, progressVars, scrollVars>>

\* "Previous": onClick={() => setStep(step - 1)}
PreviousClick ==
    /\ Mounted
    /\ PreviousShown
    /\ step' = step - 1
    /\ op' = Op("previous", step)
    /\ UNCHANGED <<tourSeen, showTour, tourTimer, age, seenWrites, opens,
                   pageVars, faqVars, themeVars, toastVars, progressVars, scrollVars>>

\* The timeout of the mount effect fires: setShowTour(true).  It is never
\* cancelled, and it does not read the flag again.  The update is dropped if
\* App was removed meanwhile.
AutoOpenTimer ==
    /\ tourTimer
    /\ age >= TOUR_DELAY
    /\ tourTimer' = FALSE
    /\ showTour' = (Mounted \/ showTour)
    /\ step' = IF showTour THEN step ELSE 0
    /\ op' = Op("autoOpen", 0)
    /\ UNCHANGED <<tourSeen, age, seenWrites, opens,
                   pageVars, faqVars, themeVars, toastVars, progressVars, scrollVars>>

\* Time passes on the loaded page.
TourClock ==
    /\ \E t \in TourTimes : t > age /\ age' = t
    /\ op' = Op("clock", 0)
    /\ UNCHANGED <<tourSeen, showTour, step, tourTimer, seenWrites, opens,
                   pageVars, faqVars, themeVars, toastVars, progressVars, scrollVars>>

\* ---------------------------------------------------------- FAQ accordion
toggleFaqNeverCloses(open, index) == index
toggleFaqClosesAll(open, index) == IF open # NoFaq THEN NoFaq ELSE index
\* openFaq === index ? null : index
toggleFaq(open, index) == IF open = index THEN NoFaq ELSE index

\* The last two entries of a history trail after adding e.
Trail2(trail, e) ==
    IF trail = <<>> THEN <<e>> ELSE <<trail[Len(trail)], e>>

\* onClick (and Enter / Space in onKeyDown) of FAQ button `index`
selectFaq(index) ==
    /\ Mounted
    /\ openFaq' = toggleFaq(openFaq, index)
    /\ faqTrail' = Trail2(faqTrail, [index |-> index, before |-> openFaq])
    /\ op' = Op("selectFaq", index)
    /\ UNCHANGED <<pageVars, tourVars, themeVars, toastVars, progressVars, scrollVars>>

\* ------------------------------------------------------- theme controller
toggleThemeNoPersist ==
    /\ Mounted
    /\ toggles < MaxToggles
    /\ toggles' = toggles + 1
    /\ darkMode' = ~darkMode
    /\ themeTrail' = Trail2(themeTrail, [dark |-> darkMode, stored |-> storedTheme])
    /\ op' = Op("toggleTheme", 0)
    /\ UNCHANGED <<storedTheme, appState, listeners,
                   systemDark, prevInst, windowDefined, loads, atLoad,
                   storageThrows, scrollY, scrolled, visible,
                   tourVars, faqVars, toastVars, progressVars>>
\* The theme buttons: onClick={() => setDarkMode(!darkMode)}, then the effect
\* on [darkMode]: localStorage.setItem('secura-theme', darkMode ? 'dark' : 'light').
\* The click is a discrete event: React renders and runs the effect before the
\* click's task ends, so no other handler and no unload comes in between.
\* If setItem throws, the error of the effect is not caught (no try/catch, no
\* error boundary) and React removes the whole tree.
toggleTheme ==
    /\ Mounted
    /\ toggles < MaxToggles
    /\ toggles' = toggles + 1
    /\ darkMode' = ~darkMode
    /\ IF storageThrows
       THEN /\ appState' = "crashed"
            /\ listeners' = unmountListeners(listeners)
            /\ UNCHANGED storedTheme
       ELSE /\ storedTheme' = themeString(darkMode')
            /\ UNCHANGED <<appState, listeners>>
    /\ themeTrail' = Trail2(themeTrail, [dark |-> darkMode, stored |-> storedTheme])
    /\ op' = Op("toggleTheme", 0)
    /\ UNCHANGED <<systemDark, prevInst, windowDefined, loads, atLoad,
                   storageThrows, scrollY, scrolled, visible,
                   tourVars, faqVars, toastVars, progressVars>>

\* The user changes the colour scheme of the system; the page reads it only
\* in the initializer of darkMode.
SystemPrefChange ==
    /\ systemDark' = ~systemDark
    /\ op' = Op("system", 0)
    /\ UNCHANGED <<storedTheme, darkMode, toggles, prevInst, themeTrail,
                   pageVars, tourVars, faqVars, toastVars, progressVars, scrollVars>>

\* ----------------------------------------------------------- specifications
Init == ToastInit /\ ProgressInit /\ AppInit /\ op = Op("init", 0)

ToastNext ==
    \/ \E type \in ToastTypes, message \in Messages : addToast(type, message)
    \/ \E a \in 1..MaxPushes : DismissClick(a)
    \/ ExpiryTimer
    \/ AdvanceClock

ProgressNext ==
    \/ \E v \in Inputs : setFile(v)
    \/ simulateEncryption
    \/ \E r \in Increments : Tick(r)
    \/ reset

\* The demo's operations with reset() callable in every state, not only
\* through the "Try another" button.
ProgressApiNext == ProgressNext \/ resetAnyState

TourNext ==
    \/ takeTour
    \/ CloseClick
    \/ GetStartedClick
    \/ NextClick
    \/ PreviousClick
    \/ AutoOpenTimer
    \/ TourClock
    \/ \E w \in BOOLEAN : LoadPage(w)

FaqNext ==
    \/ \E index \in 0 .. (FAQ_COUNT - 1) : selectFaq(index)
    \/ \E w \in BOOLEAN : LoadPage(w)

ThemeNext ==
    \/ toggleTheme
    \/ SystemPrefChange
    \/ \E w \in BOOLEAN : LoadPage(w)

ScrollNext ==
    \/ \E y \in ScrollPositions : Scroll(y)
    \/ UnmountApp
    \/ \E w \in BOOLEAN : LoadPage(w)

\* The theme controller in a browser whose localStorage may throw.
StorageNext ==
    \/ ThemeNext
    \/ StorageFault

\* The timers of App and EncryptionDemo, and the removal of the tree.  The
\* toasts are those of App's one call site, addToast('info', ...).
TeardownNext ==
    \/ \E message \in Messages : addToast("info", message)
    \/ ExpiryTimer
    \/ AdvanceClock
    \/ \E v \in Inputs \ {""} : setFile(v)
    \/ simulateEncryption
    \/ Tick(RANDOM_SCALE - 1)
    \/ AutoOpenTimer
    \/ TourClock
    \/ UnmountApp

ToastSpec == Init /\ [][ToastNext]_vars
ScrollSpec == Init /\ [][ScrollNext]_vars
StorageSpec == Init /\ [][StorageNext]_vars
TeardownSpec == Init /\ [][TeardownNext]_vars
TourSpec == Init /\ [][TourNext]_vars
FaqSpec == Init /\ [][FaqNext]_vars
ThemeSpec == Init /\ [][ThemeNext]_vars
\* The auto-open timeout runs when it is due and time does not stop.
TourFairSpec == TourSpec /\ WF_vars(AutoOpenTimer) /\ WF_vars(TourClock)
ProgressSpec == Init /\ [][ProgressNext]_vars
ProgressApiSpec == Init /\ [][ProgressApiNext]_vars

\* Timers run when they are due and time does not stop (the event loop).
ToastFairSpec == ToastSpec /\ WF_vars(ExpiryTimer) /\ WF_vars(AdvanceClock)
\* The interval keeps firing and Math.random() is positive infinitely often.
ProgressFairSpec ==
    ProgressSpec /\ WF_vars(\E r \in Increments \ {0} : Tick(r))

\* ------------------------------------------------------------------ claims
InList(a) == a \in Arrivals(toasts)
HasTimer(a) == a \in Arrivals(timers)

\* C1: no two toasts in the live list have the same id, also when two pushes
\* are made while Date.now() has not advanced.
C1_UniqueIds ==
    \A i, j \in DOMAIN toasts : i # j => toasts[i].id # toasts[j].id

\* C2: directly after dismiss(id) no toast with that id is in the list,
\* however much of its 5000 ms expiry delay remains.
C2_DismissRemovesNow ==
    op.name = "dismissToast" => op.arg \notin Ids(toasts)

\* C2 witness: a dismiss just removed a toast whose expiry is still pending and
\* not yet due, and another toast stayed in the list.
C2_Witness ==
    /\ op.name = "dismissToast"
    /\ op.removed = 1
    /\ toasts # <<>>
    /\ \E i \in DOMAIN timers :
          /\ timers[i].id = op.arg
          /\ timers[i].arrival \in dismissed
          /\ now < timers[i].due

\* C3: the live list is the sequence of pushed toasts, in arrival order, minus
\* exactly those a dismiss or an expiry was performed for.
C3_ListIsHistoryMinusRemoved ==
    toasts = SelectSeq(pushed, LAMBDA t : t.arrival \notin (dismissed \cup expired))

\* C4: list size = pushes - dismissals - auto-expirations, each counted once
\* when performed for a toast still in the list.
C4_SizeIsPushesMinusRemovals ==
    Len(toasts) = Len(pushed) - Cardinality(dismissed) - Cardinality(expired)

\* C5: every push schedules one expiry 5000 ms later; a toast never dismissed
\* stays in the list until its own expiry timer fires and is removed when it
\* fires; every pushed toast is eventually absent from the list.
C5_OneExpiryPerPush ==
    \A i, j \in DOMAIN timers :
        /\ timers[i].due = timers[i].id + TOAST_DELAY
        /\ (i # j => timers[i].arrival # timers[j].arrival)
C5_StaysUntilOwnExpiry ==
    \A a \in 1..Len(pushed) : (a \notin dismissed /\ HasTimer(a)) => InList(a)
C5_RemovedWhenExpiryFires ==
    \A a \in 1..Len(pushed) : ~HasTimer(a) => ~InList(a)
C5_EventuallyAbsent ==
    \A a \in 1..MaxPushes : InList(a) ~> ~InList(a)
C5_ExpiryLifecycle ==
    /\ [](C5_OneExpiryPerPush /\ C5_StaysUntilOwnExpiry /\ C5_RemovedWhenExpiryFires)
    /\ C5_EventuallyAbsent

\* C6: the progress value lies in [0, 100] in every reachable state.
C6_ProgressInRange == progress >= 0 /\ progress <= FULL

Complete == encrypted /\ ~encrypting

\* C7: a started run eventually reaches status complete, and in the state
\* where it becomes complete the value is exactly 100.
C7_CompletesAtFull ==
    /\ encrypting ~> (Complete /\ progress = FULL)
    /\ [][(~encrypted /\ encrypted') => (~encrypting' /\ progress' = FULL)]_vars

\* C7 witness: the tick that completed a run started with a non-empty input.
C7_Witness ==
    /\ op.name = "tick"
    /\ Complete
    /\ progress = FULL
    /\ intervals = 0
    /\ file # ""

\* C8: the tick on which the value reaches or passes 100 clamps it, cancels
\* the interval and completes, so no state is running with value >= 100; after
\* completion no tick is pending and the value stays 100 until reset.
C8_NoRunningAtFull ==
    /\ encrypting => progress < FULL
    /\ encrypted => (progress = FULL /\ intervals = 0)

\* C9: start with an empty input changes nothing: status stays idle, value and
\* input unchanged, no interval scheduled, no message produced.
C9_EmptyStartIsNoOp ==
    [][(op'.name = "simulateEncryption" /\ file = "")
         => /\ ~encrypting' /\ ~encrypted'
            /\ UNCHANGED <<file, progress, intervals, toasts>>]_vars

\* C9 witness: simulateEncryption has just run on an empty input.
C9_Witness ==
    /\ op.name = "simulateEncryption"
    /\ file = ""
    /\ ~encrypting /\ ~encrypted
    /\ intervals = 0
    /\ progress = 0

\* C10: no tick taken while running, the one that ends the run included,
\* stores a value smaller than the value before it.
C10_MonotoneWhileRunning ==
    [][encrypting => progress' >= progress]_vars

Idle == ~encrypting /\ ~encrypted

C12_ResetThenRunAgain ==
    /\ [][(Complete /\ op'.name = "reset")
            => (file' = "" /\ progress' = 0 /\ Idle' /\ intervals' = 0)]_vars
    /\ [][(runs >= 1 /\ Idle /\ encrypting')
            => (file # "" /\ progress' = 0 /\ intervals' = 1)]_vars
    /\ (runs >= 2 /\ encrypting) ~> (runs >= 2 /\ Complete /\ progress = FULL)

\* C12 witness: a second run, started after a reset, has completed.
C12_Witness ==
    /\ runs = 2
    /\ op.name = "tick"
    /\ Complete
    /\ progress = FULL

\* C13: once the seen flag is persisted the tour is never again opened
\* automatically, neither later in the same page session (also when the user
\* opened and closed it before the 2000 ms delay elapsed) nor on a later load.
C13_NoAutoOpenOnceSeen ==
    [][(tourSeen = "true" /\ ~showTour /\ showTour') => op'.name # "autoOpen"]_vars

\* C14: on a load with no persisted seen flag the tour is opened automatically
\* once 2000 ms have elapsed since the load and not earlier; on a load where
\* the flag is persisted the panel is opened only by "Take Tour".
C14_AutoOpenPolicy ==
    /\ [][op'.name = "autoOpen"
            => (atLoad.window /\ atLoad.seen = NoItem /\ age >= TOUR_DELAY
                /\ showTour')]_vars
    /\ [][(~showTour /\ showTour' /\ atLoad'.seen # NoItem)
            => op'.name = "takeTour"]_vars
    /\ \A n \in 0 .. MaxLoads :
          (/\ loads = n
           /\ op.name \in {"init", "load"}
           /\ atLoad.window /\ atLoad.seen = NoItem)
             ~> ((op.name = "autoOpen" /\ showTour) \/ loads # n)

\* C14 witness: the timeout of a load without the flag has just opened the
\* panel, 2000 ms after the load.
C14_Witness ==
    /\ op.name = "autoOpen"
    /\ showTour
    /\ age = TOUR_DELAY
    /\ atLoad.seen = NoItem
    /\ tourSeen = NoItem

\* C15: previous is not available at step 0; at step N-1 next is replaced by
\* finish, which closes the panel and writes the seen flag 'true' exactly once.
C15_StepperEnds ==
    [][/\ (op'.name = "previous" => step > 0)
       /\ (op'.name = "next" => step < TOUR_STEPS - 1)
       /\ (op'.name = "finish"
             => (/\ step = TOUR_STEPS - 1
                 /\ ~showTour'
                 /\ tourSeen' = "true"
                 /\ seenWrites' = seenWrites + 1))]_vars

\* C15 witness: finish was taken at the last step of the first tour.
C15_Witness ==
    /\ op.name = "finish"
    /\ op.arg = TOUR_STEPS - 1
    /\ ~showTour
    /\ tourSeen = "true"
    /\ seenWrites = 1

\* C16: the current step is always in [0, N-1] with N = 4; next increases it
\* by exactly one and previous decreases it by exactly one.
C16_StepInRange ==
    /\ [](step \in 0 .. (TOUR_STEPS - 1) /\ TOUR_STEPS = 4)
    /\ [][/\ (op'.name = "next" => step' = step + 1)
          /\ (op'.name = "previous" => step' = step - 1)]_vars

\* C16 witness: the last step reached by next in a reopened tour.
C16_Witness ==
    /\ op.name = "next"
    /\ showTour
    /\ step = TOUR_STEPS - 1
    /\ opens = 2
    /\ seenWrites >= 1

OpenItems == IF openFaq = NoFaq THEN {} ELSE {openFaq}

\* C17: select(index) opens index when another item or none is open and closes
\* it when it is open; the open item is none or one index in [0, N-1], N = 5.
C17_SelectToggles ==
    /\ [](OpenItems \subseteq 0 .. (FAQ_COUNT - 1) /\ FAQ_COUNT = 5)
    /\ [][op'.name = "selectFaq"
            => /\ (openFaq # op'.arg => openFaq' = op'.arg)
               /\ (openFaq = op'.arg => openFaq' = NoFaq)]_vars

\* C17 witness: selecting an item while another one was open opened it and
\* closed the other.
C17_Witness ==
    /\ op.name = "selectFaq"
    /\ openFaq = op.arg
    /\ faqTrail # <<>>
    /\ faqTrail[Len(faqTrail)].before \notin {NoFaq, op.arg}

DoubleSelect ==
    /\ Len(faqTrail) = 2
    /\ faqTrail[1].index = faqTrail[2].index
    /\ faqTrail[1].before # faqTrail[1].index

\* C18: from a state where item i is not open, select(i) followed by select(i)
\* leaves no item open.
C18_DoubleToggleCloses == DoubleSelect => openFaq = NoFaq

\* C18 witness: select(i) twice, starting with another item open.
C18_Witness ==
    /\ DoubleSelect
    /\ faqTrail[1].before # NoFaq
    /\ openFaq = NoFaq

\* C19: a persisted theme decides the initial preference whatever the system
\* preference is; with none persisted it is the system preference; with no
\* window (neither storage nor the system signal) it is dark.
C19_GetInitial ==
    /\ (atLoad.window /\ atLoad.saved = "dark") => atLoad.dark
    /\ (atLoad.window /\ atLoad.saved = "light") => ~atLoad.dark
    /\ (atLoad.window /\ atLoad.saved = NoItem) => (atLoad.dark = atLoad.system)
    /\ ~atLoad.window => atLoad.dark
    /\ op.name \in {"init", "load"} => darkMode = atLoad.dark

\* C19 witness: a load that found 'light' persisted while the system prefers
\* dark, and started light.
C19_Witness ==
    /\ op.name = "load"
    /\ atLoad.window
    /\ atLoad.saved = "light"
    /\ atLoad.system
    /\ ~darkMode

\* C20: after toggles, a fresh instance that reads the persisted slot starts
\* with the preference the previous instance had after its last toggle,
\* whatever the system preference; two toggles in a row restore the in-memory
\* preference and the persisted value.
C20_RoundTrip ==
    /\ (op.name = "load" /\ windowDefined /\ prevInst.toggles > 0)
          => darkMode = prevInst.dark
    /\ Len(themeTrail) = 2
          => (darkMode = themeTrail[1].dark /\ storedTheme = themeTrail[1].stored)

\* C20 witness: a fresh instance started with the toggled preference, which
\* is not the system preference.
C20_Witness ==
    /\ op.name = "load"
    /\ windowDefined
    /\ prevInst.toggles = 1
    /\ darkMode = prevInst.dark
    /\ darkMode # systemDark

\* C21: a theme toggle flips the in-memory preference and persists it in the
\* same step: in every state that a handler or a reload can observe, the slot
\* holds the string of the in-memory preference; a toggle changes both
\* together; the slot is absent or holds 'dark' or 'light', nothing else.
C21_TogglePersistsAtOnce ==
    /\ [](Mounted => storedTheme = (IF darkMode THEN "dark" ELSE "light"))
    /\ [](storedTheme \in {NoItem, "dark", "light"})
    /\ [][op'.name = "toggleTheme" =>
            /\ darkMode' = ~darkMode
            /\ storedTheme' # storedTheme
            /\ storedTheme' = (IF darkMode' THEN "dark" ELSE "light")]_vars

\* C21 witness: the second toggle of a load just ran; it turned the preference
\* to light and the slot, which held 'dark' before it, holds 'light'.
C21_Witness ==
    /\ op.name = "toggleTheme"
    /\ toggles = 2
    /\ ~darkMode
    /\ storedTheme = "light"
    /\ themeTrail[Len(themeTrail)].stored = "dark"

\* C22: a failing read or write of the theme slot is tolerated silently: no
\* error state is reached, a load with failing storage still gets the system
\* preference, and a toggle with failing storage still flips the preference
\* and leaves the page running.
C22_StorageFailureTolerated ==
    /\ [](appState # "crashed")
    /\ [][(storageThrows /\ op'.name = "load" /\ windowDefined')
            => darkMode' = systemDark]_vars
    /\ [][(storageThrows /\ op'.name = "toggleTheme")
            => (darkMode' = ~darkMode /\ Mounted')]_vars

\* C23: once the App tree (with EncryptionDemo in it) is removed, none of its
\* timers is pending: no toast expiry timeout, no tour auto-open timeout, no
\* progress interval; and none of them fires after the removal.
C23_NoTimerAfterTeardown ==
    /\ [](appState = "unmounted"
            => (timers = <<>> /\ ~tourTimer /\ intervals = 0))
    /\ [][appState = "unmounted"
            => op'.name \notin {"expire", "autoOpen", "tick"}]_vars

\* C24: after every scroll event on the mounted page, 'scrolled' is true
\* exactly when the position of that event is above 50 and 'show back-to-top'
\* exactly when it is above 500 (both false at exactly 50 and 500); the flags
\* are a function of the latest position alone.
C24_FlagsFollowLatestPosition ==
    (op.name = "scroll" /\ Mounted) =>
        /\ scrollY = op.arg
        /\ scrolled = (op.arg > 50)
        /\ visible = (op.arg > 500)

\* C24 witness: a scroll event at exactly 500 on the mounted page: scrolled
\* is set, back-to-top is not.
C24_Witness ==
    /\ op.name = "scroll"
    /\ Mounted
    /\ op.arg = 500
    /\ scrolled
    /\ ~visible

\* C25: while the tree is mounted App and BackToTop hold exactly one scroll
\* subscription each; the removal of the tree removes both, and a scroll
\* event after the removal changes neither flag.
C25_OneSubscriptionRemovedOnTeardown ==
    /\ [](Mounted => \A c \in Components : listeners[c] = 1)
    /\ [](appState = "unmounted" => \A c \in Components : listeners[c] = 0)
    /\ [][(appState = "unmounted" /\ op'.name = "scroll")
            => UNCHANGED <<scrolled, visible>>]_vars

\* C25 witness: the tree was removed while both flags were set, and a scroll
\* event back to the top has left both flags as they were.
C25_Witness ==
    /\ appState = "unmounted"
    /\ op.name = "scroll"
    /\ scrollY = 0
    /\ scrolled
    /\ visible
    /\ \A c \in Components : listeners[c] = 0

\* C26: whenever the tour panel goes from open to closed through the finish
\* button or the close button, at any step, the seen flag is 'true'
\* afterwards; the flag is absent or 'true', never another value; once set it
\* is never removed, also when the tour is reopened and closed again.
C26_SeenFlagPersistedOnClose ==
    /\ [][(showTour /\ ~showTour')
            => (op'.name \in {"close", "finish", "load"}
                /\ (op'.name # "load" => tourSeen' = "true"))]_vars
    /\ [][op'.name \in {"close", "finish"}
            => (showTour /\ ~showTour' /\ tourSeen' = "true")]_vars
    /\ [](tourSeen \in {NoItem, "true"})
    /\ [][tourSeen = "true" => tourSeen' = "true"]_vars

\* C26 witness: the tour, opened for the second time, was just closed with the
\* close button at its third step; the flag is 'true' and was written twice.
C26_Witness ==
    /\ op.name = "close"
    /\ op.arg = 2
    /\ ~showTour
    /\ tourSeen = "true"
    /\ seenWrites = 2

\* C27: when the status is complete the input shown as 'Original' is the
\* non-empty input the run was started with: while a run is in progress the
\* input does not change, so at completion it is not empty.
C27_OriginalIsStartedInput ==
    /\ [](encrypted => file # "")
    /\ [][encrypting => file' = file]_vars

\* C28: at most one interval exists, and it exists exactly while encrypting;
\* encrypting and encrypted are never both true; a start happens only in
\* status idle; the status moves idle -> running -> complete -> idle.
C28_OneRunAtATime ==
    /\ [](intervals <= 1 /\ (encrypting <=> intervals = 1))
    /\ [](~(encrypting /\ encrypted))
    /\ [][op'.name = "simulateEncryption" => Idle]_vars
    /\ [][/\ (Idle => (Idle' \/ (encrypting' /\ op'.name = "simulateEncryption")))
          /\ (encrypting => (encrypting' \/ (Complete' /\ op'.name = "tick")))
          /\ (Complete => (Complete' \/ (Idle' /\ op'.name = "reset")))]_vars

\* C28 witness: a second run is in progress after the first one completed and
\* was reset, and exactly one interval exists.
C28_Witness ==
    /\ runs = 2
    /\ encrypting
    /\ ~encrypted
    /\ intervals = 1
    /\ progress > 0

\* C29: the theme slot is written only by a toggle: a step that is not a
\* toggle leaves the slot as it was, and a load that follows an instance on
\* which the user never toggled still follows the system preference.
C29_SlotWrittenOnlyByToggle ==
    /\ [][op'.name # "toggleTheme" => storedTheme' = storedTheme]_vars
    /\ []((op.name = "load" /\ loads = 1 /\ windowDefined
           /\ prevInst.toggles = 0) => darkMode = systemDark)

\* C30: in every state reached by scroll events, 'show back-to-top' true
\* implies 'scrolled' true, although two separate listeners set the flags.
C30_BackToTopImpliesScrolled ==
    visible => scrolled

\* C30 witness: a scroll event above 500 on the mounted page set both flags
\* through the two listeners.
C30_Witness ==
    /\ op.name = "scroll"
    /\ Mounted
    /\ listeners["App"] = 1 /\ listeners["BackToTop"] = 1
    /\ scrollY > 500
    /\ visible
    /\ scrolled

====
